---- MODULE Spec2Model ----
(***************************************************************************)
(* Model of kakkoyun/demo-web-service: the request pipeline                *)
(* (handlers.LoggingMiddleware, responseWriter, the route handlers and     *)
(* jsonResponse/errorResponse) and the lifecycle code of cmd/api/main.go   *)
(* (server goroutine, signal channel, srv.Shutdown with a 15 s deadline,   *)
(* os.Exit).                                                               *)
(*                                                                         *)
(* net/http is modelled by its documented contract at the places the       *)
(* repository calls it: the first WriteHeader on a response fixes the      *)
(* status line and later ones are ignored, a Write without WriteHeader     *)
(* sends 200, a panic that leaves the handler chain makes the server close *)
(* the connection, Shutdown closes the listeners and then waits for the    *)
(* connections to become idle or for its context to expire.                *)
(***************************************************************************)
EXTENDS Integers, Sequences, FiniteSets, TLC

(***************************************************************************)
(* Bounds                                                                  *)
(***************************************************************************)
\* number of connections the model lets be open at the same time
MaxConns == 2
\* number of ResponseWriter calls an arbitrary downstream handler makes
MaxCalls == 2

Conns == 1..MaxConns

(***************************************************************************)
(* Program constants                                                       *)
(***************************************************************************)
StatusOK == 200
StatusCreated == 201
StatusBadRequest == 400
StatusNotFound == 404
StatusInternalServerError == 500
StatusServiceUnavailable == 503

\* strings are sequences of one-character strings, so that strconv.Atoi and
\* fmt.Sprintf("%d") are computed and not assumed
Digits == <<"0", "1", "2", "3", "4", "5", "6", "7", "8", "9">>

DigitVal(c) == (CHOOSE i \in 1..10 : Digits[i] = c) - 1

IsDigit(c) == \E i \in 1..10 : Digits[i] = c

RECURSIVE ParseDigits(_, _)
ParseDigits(s, acc) ==
    IF s = <<>> THEN acc ELSE ParseDigits(Tail(s), acc * 10 + DigitVal(Head(s)))

RECURSIVE StripZeros(_)
StripZeros(s) ==
    IF s # <<>> /\ Head(s) = "0" THEN StripZeros(Tail(s)) ELSE s

\* strconv.Atoi: optional sign, then one or more decimal digits; a value that
\* does not fit the 64-bit int is an error (ErrRange).  Every number of more
\* than 19 significant digits is out of range; the inputs of the model have
\* at most 4 or more than 19
Atoi(s) ==
    LET body == IF s # <<>> /\ Head(s) \in {"+", "-"} THEN Tail(s) ELSE s
    IN IF body = <<>> \/ \E i \in 1..Len(body) : ~IsDigit(body[i])
       THEN [ok |-> FALSE, val |-> 0]
       ELSE IF Len(StripZeros(body)) > 19
       THEN [ok |-> FALSE, val |-> 0]
       ELSE [ok |-> TRUE,
             val |-> IF Head(s) = "-" THEN 0 - ParseDigits(body, 0)
                     ELSE ParseDigits(body, 0)]

RECURSIVE ItoaNat(_)
ItoaNat(n) ==
    IF n < 10 THEN <<Digits[n + 1]>> ELSE ItoaNat(n \div 10) \o <<Digits[(n % 10) + 1]>>

\* fmt.Sprintf("%d", n)
Itoa(n) == IF n < 0 THEN <<"-">> \o ItoaNat(0 - n) ELSE ItoaNat(n)

(***************************************************************************)
(* The response sink.  One record holds the wrapper's field statusCode and *)
(* the state of the embedded http.ResponseWriter of the connection.        *)
(* wrapped tells which value the handler holds as its http.ResponseWriter: *)
(* the *responseWriter (TRUE) or the server's writer itself (FALSE);        *)
(* headerCalls counts the WriteHeader calls the handler made on it.        *)
(***************************************************************************)
\* newResponseWriter(w): statusCode defaults to 200, nothing sent yet
newResponseWriter ==
    [wrapped |-> TRUE,
     statusCode |-> StatusOK,
     headerCalls |-> 0,
     hdrCT |-> "",
     wroteHeader |-> FALSE,
     status |-> 0,
     sentCT |-> "",
     body |-> <<>>]

\* w.Header().Set("Content-Type", ct): changes the live header map only
HeaderSet(w, ct) == [w EXCEPT !.hdrCT = ct]

\* the embedded ResponseWriter's WriteHeader: the first call fixes the status
\* line and the headers, every later call is ignored ("superfluous")
UnderlyingWriteHeader(w, code) ==
    IF w.wroteHeader
    THEN w
    ELSE [w EXCEPT !.wroteHeader = TRUE, !.status = code, !.sentCT = w.hdrCT]

\* (*responseWriter).WriteHeader: record, then delegate
WriteHeader(w, code) ==
    UnderlyingWriteHeader([w EXCEPT !.statusCode = code], code)

\* the server's response writer handed to a handler without LoggingMiddleware
UnderlyingWriter == [newResponseWriter EXCEPT !.wrapped = FALSE]

\* w.WriteHeader(code) on the http.ResponseWriter interface value w: the
\* method of the dynamic type runs
CallWriteHeader(w, code) ==
    LET w1 == [w EXCEPT !.headerCalls = @ + 1]
    IN IF w1.wrapped THEN WriteHeader(w1, code) ELSE UnderlyingWriteHeader(w1, code)

\* w.(http.Flusher): responseWriter embeds the interface http.ResponseWriter,
\* so its method set is Header, Write and WriteHeader; Flush, Hijack, ReadFrom
\* and Push of the server's writer are not promoted, and it has no Unwrap
ImplementsFlusher(w) == ~w.wrapped

\* Flush of the server's writer: sends the header (200 if none was written)
\* and what was written so far
Flush(w) == UnderlyingWriteHeader(w, StatusOK)

\* Write is promoted from the embedded ResponseWriter: the wrapper does not see
\* it, and the implicit WriteHeader(200) is the embedded writer's own
Write(w, data) ==
    LET w1 == UnderlyingWriteHeader(w, StatusOK)
    IN [w1 EXCEPT !.body = Append(@, data)]

\* http.Error(w, msg, code)
HttpError(w, msg, code) ==
    Write(CallWriteHeader(HeaderSet(w, "text/plain; charset=utf-8"), code),
          [text |-> <<msg>>])

(***************************************************************************)
(* JSON encoding of the values the handlers send                           *)
(***************************************************************************)
\* a value encoding/json cannot marshal (a channel, a func): JSONResponse is
\* exported and takes interface{}
Unsupported == [unsupported |-> TRUE]

Encodable(data) == data # Unsupported

\* models.User; names and messages are sequences of text pieces, so that a
\* formatted number stays the digits Itoa produced
User(id, name) == [ID |-> id, Name |-> name]

NoUser == User(0, <<>>)

\* models.UserResponse with every field at its zero value (User is a pointer:
\* HasUser is FALSE for nil)
EmptyUserResponse ==
    [Status |-> "", Message |-> <<>>, User |-> NoUser, HasUser |-> FALSE, Users |-> <<>>]

\* json.Marshal of models.UserResponse: every field is omitempty, so a zero
\* field leaves no key in the document
EncodeUserResponse(resp) ==
    [json |->
        (IF resp.Status # "" THEN "status" :> resp.Status ELSE <<>>)
        @@ (IF resp.Message # <<>> THEN "message" :> resp.Message ELSE <<>>)
        @@ (IF resp.HasUser THEN "user" :> resp.User ELSE <<>>)
        @@ (IF resp.Users # <<>> THEN "users" :> resp.Users ELSE <<>>)]

\* json.Marshal of a map[string]string or of a struct without omitempty: the
\* document has exactly the keys of the value
EncodeMap(m) == [json |-> m]

\* jsonResponse(w, status, data): data is already the encoded document, or
\* Unsupported when Encode fails
jsonResponse(w, status, data) ==
    LET w1 == CallWriteHeader(HeaderSet(w, "application/json"), status)
    IN IF Encodable(data)
       THEN Write(w1, data)
       ELSE HttpError(w1, "Failed to generate response", StatusInternalServerError)

\* JSONResponse: the exported alias
JSONResponse(w, status, data) == jsonResponse(w, status, data)

\* errorResponse that answers in plain text
errorResponse_PlainText(w, status, message) ==
    HttpError(w, "error", status)

\* errorResponse(w, status, message)
errorResponse(w, status, message) ==
    jsonResponse(w, status, EncodeMap([status |-> "error", message |-> message]))

(***************************************************************************)
(* State                                                                   *)
(***************************************************************************)
VARIABLES
    TestMode,    \* handlers.TestMode
    conn,        \* per connection: the request being served and its response
    srvPc,       \* position of the goroutine that runs srv.ListenAndServe
    mainPc,      \* position of main after signal.Notify
    inShutdown,  \* the server's shutting-down flag, set by srv.Shutdown
    sigChan,     \* number of signals waiting in the buffered channel c (capacity 1)
    timer,       \* the 15 s context of main: "unset", "running", "expired"
    exitCode,    \* -1 while the process runs, else the status given to os.Exit
    shutdownErr, \* what srv.Shutdown returned to main, "" before it returns
    mainLog,     \* records logged by main and by the server goroutine
    environ,     \* the process environment: os.LookupEnv("ALLOWED_ORIGINS")
    cfg          \* the *config.Config of main, its AllowedOrigins

vars == <<TestMode, conn, srvPc, mainPc, inShutdown, sigChan, timer, exitCode, shutdownErr,
          mainLog, environ, cfg>>

configVars == <<environ, cfg>>

lifecycleVars == <<srvPc, mainPc, inShutdown, sigChan, timer, exitCode, shutdownErr, mainLog>>

exited == exitCode # -1

(***************************************************************************)
(* Route handlers (handlers package).  The random draws of math/rand are   *)
(* parameters; the caller draws them from the range of rand.Intn.          *)
(***************************************************************************)

\* HomeHandler that reports its injected fault as an internal error
HomeHandler_InternalError(w, n10) ==
    IF ~TestMode /\ n10 = 0
    THEN errorResponse(w, StatusInternalServerError, <<"Service temporarily unavailable">>)
    ELSE jsonResponse(w, StatusOK, EncodeMap([message |-> <<"Welcome to the API">>]))

\* HomeHandler; n10 = rand.Intn(10)
HomeHandler(w, n10) ==
    IF ~TestMode /\ n10 = 0
    THEN errorResponse(w, StatusServiceUnavailable, <<"Service temporarily unavailable">>)
    ELSE jsonResponse(w, StatusOK, EncodeMap([message |-> <<"Welcome to the API">>]))

\* mutant: the health route takes part in fault injection like the home route
HealthCheckHandler_FaultInjected(w) ==
    IF ~TestMode
    THEN errorResponse(w, StatusServiceUnavailable, <<"Service temporarily unavailable">>)
    ELSE jsonResponse(w, StatusOK, EncodeMap([status |-> "healthy"]))

\* HealthCheckHandler
HealthCheckHandler(w) ==
    jsonResponse(w, StatusOK, EncodeMap([status |-> "healthy"]))

\* GetUsersHandler over a store that CreateUserHandler adds to: the list has
\* the created user once a POST /api/users has been answered 201
GetUsersHandler_SeesCreated(w, n5) ==
    IF ~TestMode /\ n5 = 0
    THEN errorResponse(w, StatusInternalServerError, <<"Failed to retrieve users">>)
    ELSE jsonResponse(w, StatusOK,
            EncodeUserResponse([EmptyUserResponse EXCEPT
                !.Status = "success",
                !.Users = <<User(1, <<"John Doe">>), User(2, <<"Jane Smith">>)>>
                          \o (IF \E r \in DOMAIN conn : conn[r].w.status = StatusCreated
                              THEN <<User(3, <<"New User">>)>> ELSE <<>>)]))

\* GetUsersHandler; n5 = rand.Intn(5)
GetUsersHandler(w, n5) ==
    IF ~TestMode /\ n5 = 0
    THEN errorResponse(w, StatusInternalServerError, <<"Failed to retrieve users">>)
    ELSE jsonResponse(w, StatusOK,
            EncodeUserResponse([EmptyUserResponse EXCEPT
                !.Status = "success",
                !.Users = <<User(1, <<"John Doe">>), User(2, <<"Jane Smith">>)>>]))

\* processUserData whose failure is not switched off by test mode
processUserData_IgnoresTestMode(n4) ==
    IF n4 = 0 THEN <<"database constraint violation">> ELSE <<>>

\* processUserData; n4 = rand.Intn(4).  Returns err.Error(), <<>> for nil
processUserData(n4) ==
    IF ~TestMode /\ n4 = 0 THEN <<"database constraint violation">> ELSE <<>>

\* validateAndCreateUser; n3 = rand.Intn(3).  errtrace.Wrap keeps the text
validateAndCreateUser(n3, n4) ==
    IF ~TestMode /\ n3 = 0
    THEN <<"validation error", ": required fields missing">>
    ELSE LET err == processUserData(n4)
         IN IF err # <<>> THEN <<"user processing failed: ">> \o err ELSE <<>>

\* CreateUserHandler without the return after the empty-body response
CreateUserHandler_NoReturn(w, clen, n3, n4) ==
    LET w1 == IF clen = 0
              THEN errorResponse(w, StatusBadRequest, <<"Empty request body">>)
              ELSE w
        err == validateAndCreateUser(n3, n4)
    IN IF err # <<>>
       THEN errorResponse(w1, StatusBadRequest, err)
       ELSE jsonResponse(w1, StatusCreated,
               EncodeUserResponse([EmptyUserResponse EXCEPT
                   !.Status = "success",
                   !.Message = <<"User created successfully">>,
                   !.User = User(3, <<"New User">>),
                   !.HasUser = TRUE]))

\* CreateUserHandler; clen = r.ContentLength
CreateUserHandler(w, clen, n3, n4) ==
    IF clen = 0
    THEN errorResponse(w, StatusBadRequest, <<"Empty request body">>)
    ELSE LET err == validateAndCreateUser(n3, n4)
         IN IF err # <<>>
            THEN errorResponse(w, StatusBadRequest, err)
            ELSE jsonResponse(w, StatusCreated,
                    EncodeUserResponse([EmptyUserResponse EXCEPT
                        !.Status = "success",
                        !.Message = <<"User created successfully">>,
                        !.User = User(3, <<"New User">>),
                        !.HasUser = TRUE]))

\* queryDatabase without the test-mode return
queryDatabase_IgnoresTestMode(id, errorChance) ==
    IF id % 5 = 0 /\ errorChance < 3 THEN <<"connection timeout">>
    ELSE IF id % 3 = 0 /\ errorChance < 3 THEN <<"query execution failed">>
    ELSE IF id > 1000 /\ errorChance < 2 THEN <<"primary key constraint violation">>
    ELSE <<>>

\* queryDatabase; errorChance = rand.Intn(10).  Returns err.Error(), <<>> for nil
queryDatabase(id, errorChance) ==
    IF TestMode THEN <<>>
    ELSE IF id % 5 = 0 /\ errorChance < 3 THEN <<"connection timeout">>
    ELSE IF id % 3 = 0 /\ errorChance < 3 THEN <<"query execution failed">>
    ELSE IF id > 1000 /\ errorChance < 2 THEN <<"primary key constraint violation">>
    ELSE <<>>

\* GetUserHandler whose "not found" branch is also taken in test mode
GetUserHandler_NotFoundInTestMode(w, idStr, errorChance, n2) ==
    LET parsed == Atoi(idStr)
        id == parsed.val
    IN IF parsed.ok /\ id > 10 /\ n2 = 0
       THEN errorResponse(w, StatusNotFound,
                          <<"User with ID ">> \o Itoa(id) \o <<" not found">>)
       ELSE jsonResponse(w, StatusOK, EncodeUserResponse(
                [EmptyUserResponse EXCEPT !.Status = "success",
                                          !.User = User(id, <<"User ">> \o Itoa(id)),
                                          !.HasUser = TRUE]))

\* GetUserHandler without the id <= 0 check
GetUserHandler_NoPositiveCheck(w, idStr, errorChance, n2) ==
    LET parsed == Atoi(idStr)
        id == parsed.val
    IN IF ~parsed.ok
       THEN errorResponse(w, StatusBadRequest, <<"Invalid user ID: ">> \o idStr)
       ELSE IF queryDatabase(id, errorChance) # <<>>
       THEN errorResponse(w, StatusInternalServerError, <<"Failed to retrieve user data">>)
       ELSE jsonResponse(w, StatusOK, EncodeUserResponse(
                [EmptyUserResponse EXCEPT !.Status = "success",
                                          !.User = User(id, <<"User ">> \o Itoa(id)),
                                          !.HasUser = TRUE]))

\* GetUserHandler that decides "not found" before it queries the database
GetUserHandler_NotFoundFirst(w, idStr, errorChance, n2) ==
    LET parsed == Atoi(idStr)
        id == parsed.val
    IN IF ~parsed.ok
       THEN errorResponse(w, StatusBadRequest, <<"Invalid user ID: ">> \o idStr)
       ELSE IF id <= 0
       THEN errorResponse(w, StatusBadRequest, <<"Invalid user ID: ">> \o Itoa(id))
       ELSE IF ~TestMode /\ id > 10 /\ n2 = 0
       THEN errorResponse(w, StatusNotFound,
                          <<"User with ID ">> \o Itoa(id) \o <<" not found">>)
       ELSE IF queryDatabase(id, errorChance) # <<>>
       THEN errorResponse(w, StatusInternalServerError, <<"Failed to retrieve user data">>)
       ELSE jsonResponse(w, StatusOK, EncodeUserResponse(
                [EmptyUserResponse EXCEPT !.Status = "success",
                                          !.User = User(id, <<"User ">> \o Itoa(id)),
                                          !.HasUser = TRUE]))

\* GetUserHandler; idStr = r.PathValue("id"), n2 = rand.Intn(2)
GetUserHandler(w, idStr, errorChance, n2) ==
    LET parsed == Atoi(idStr)
        id == parsed.val
    IN IF ~parsed.ok
       THEN errorResponse(w, StatusBadRequest, <<"Invalid user ID: ">> \o idStr)
       ELSE IF id <= 0
       THEN errorResponse(w, StatusBadRequest, <<"Invalid user ID: ">> \o Itoa(id))
       ELSE IF queryDatabase(id, errorChance) # <<>>
       THEN errorResponse(w, StatusInternalServerError, <<"Failed to retrieve user data">>)
       ELSE IF ~TestMode /\ id > 10 /\ n2 = 0
       THEN errorResponse(w, StatusNotFound,
                <<"User with ID ">> \o Itoa(id) \o <<" not found">>)
       ELSE jsonResponse(w, StatusOK,
                EncodeUserResponse([EmptyUserResponse EXCEPT
                    !.Status = "success",
                    !.User = User(id, <<"User ">> \o Itoa(id)),
                    !.HasUser = TRUE]))

\* getBuildInfo (cmd/api): ok and version come from debug.ReadBuildInfo
getBuildInfo(ok, version) ==
    IF ~ok
    THEN [version |-> "dev", module |-> "unknown", goVersion |-> "unknown"]
    ELSE [version |-> IF version = "" THEN "dev" ELSE version,
          module |-> "github.com/kakkoyun/demo-web-service",
          goVersion |-> "go"]

\* versionHandler (cmd/api)
versionHandler(w, ok, version) ==
    JSONResponse(w, StatusOK, EncodeMap(getBuildInfo(ok, version)))

(***************************************************************************)
(* Package config: AllowedOrigins from ALLOWED_ORIGINS.  A string is the   *)
(* sequence of its characters (a piece of text without comma or space may  *)
(* stand for its characters).                                              *)
(***************************************************************************)
\* longest ALLOWED_ORIGINS value the model sets
MaxEnvLen == 4

EnvChars == {"a", "b", " ", ","}

\* os.LookupEnv: the variable is unset, or set to a value (which may be "")
EnvUnset == [exists |-> FALSE, value |-> <<>>]

EnvSet(v) == [exists |-> TRUE, value |-> v]

EnvValues ==
    {EnvUnset} \cup {EnvSet(v) : v \in UNION {[1..n -> EnvChars] : n \in 0..MaxEnvLen}}

\* the fallback of sliceEnv("ALLOWED_ORIGINS", ...) in LoadConfig
DefaultOrigins == <<"http://localhost:3000", ",", "http://localhost:8080">>

\* strings.Split(s, sep) for a one-character sep: the text between the
\* separators, empty pieces included
RECURSIVE Split(_, _, _, _)
Split(s, sep, cur, acc) ==
    IF s = <<>> THEN Append(acc, cur)
    ELSE IF Head(s) = sep THEN Split(Tail(s), sep, <<>>, Append(acc, cur))
    ELSE Split(Tail(s), sep, Append(cur, Head(s)), acc)

\* splitString(s, sep)
splitString(s, sep) == IF s = <<>> THEN <<>> ELSE Split(s, sep, <<>>, <<>>)

\* splitAndTrim(s, sep): keeps the parts that are not ""
splitAndTrim(s, sep) == SelectSeq(splitString(s, sep), LAMBDA part : part # <<>>)

\* parseSlice(value)
parseSlice(value) == IF value = <<>> THEN <<>> ELSE splitAndTrim(value, ",")

\* sliceEnv(key, fallback) on the looked-up variable
sliceEnv(looked, fallback) ==
    IF looked.exists THEN parseSlice(looked.value) ELSE parseSlice(fallback)

\* before main calls config.LoadConfig
NotLoaded == [loaded |-> FALSE, AllowedOrigins |-> <<>>]

\* config.LoadConfig(): the AllowedOrigins field of the Config it returns
LoadConfig(looked) == [loaded |-> TRUE, AllowedOrigins |-> sliceEnv(looked, DefaultOrigins)]

(***************************************************************************)
(* Requests and route dispatch                                             *)
(***************************************************************************)
\* a path is the sequence of its segments, a segment a sequence of text pieces
Seg(t) == <<t>>

PathRoot == <<>>
PathHealth == <<Seg("api"), Seg("health")>>
PathUsers == <<Seg("api"), Seg("users")>>
PathVersion == <<Seg("api"), Seg("version")>>
PathUser(idStr) == <<Seg("api"), Seg("users"), idStr>>

\* paths no pattern but "GET /" matches: /api, /api/users/, /api/users/1/posts,
\* /api/health/
OtherPaths ==
    {<<Seg("api")>>, PathUser(<<>>), PathUser(<<"1">>) \o <<Seg("posts")>>,
     PathHealth \o << <<>> >>}

\* paths that are not in cleaned form: //other, /api//health, /api/./users,
\* /other/../api/health
UncleanPaths ==
    {<< <<>>, Seg("other")>>, <<Seg("api"), <<>>, Seg("health")>>,
     <<Seg("api"), Seg("."), Seg("users")>>,
     <<Seg("other"), Seg(".."), Seg("api"), Seg("health")>>}

\* values of the {id} path segment the clients send
IdInputs ==
    {<<"a", "b", "c">>, <<"0">>, <<"-", "1">>, <<"1">>, <<"+", "1">>, <<"0", "7">>,
     <<"1", "0">>, <<"1", "5">>, <<"1", "0", "0", "1">>,
     <<"1">> \o [i \in 1..19 |-> "0"]}

\* a request whose body of n bytes is announced by Content-Length (or that
\* has neither body nor Content-Length): the server sets r.ContentLength = n
Request(m, p, n) == [method |-> m, path |-> p, bodyLen |-> n, clen |-> n]

\* a request whose body of n bytes is sent with Transfer-Encoding: chunked:
\* the length is unknown when the handler runs, r.ContentLength = -1
ChunkedRequest(m, p, n) == [method |-> m, path |-> p, bodyLen |-> n, clen |-> -1]

\* the requests the clients send while the process lifecycle is explored
LifecycleRequests == {Request("GET", PathHealth, 0), Request("POST", PathUsers, 1)}

Requests ==
    {Request("GET", p, 0) : p \in {PathRoot, <<Seg("other")>>, PathHealth, PathUsers, PathVersion}}
    \cup {Request("GET", PathUser(i), 0) : i \in IdInputs}
    \cup {Request("POST", PathUsers, n) : n \in {0, 1}}
    \cup {ChunkedRequest("POST", PathUsers, n) : n \in {0, 1}}
    \cup {Request("POST", PathRoot, 1)}
    \cup {Request("GET", p, 0) : p \in UncleanPaths \cup OtherPaths}

\* the path ServeMux matches on: empty and "." segments are dropped, ".."
\* drops the segment before it, a trailing slash (an empty last segment) stays
RECURSIVE CleanSegs(_, _)
CleanSegs(segs, acc) ==
    IF segs = <<>> THEN acc
    ELSE IF Head(segs) \in {<<>>, Seg(".")} THEN CleanSegs(Tail(segs), acc)
    ELSE IF Head(segs) = Seg("..")
    THEN CleanSegs(Tail(segs), IF acc = <<>> THEN acc ELSE SubSeq(acc, 1, Len(acc) - 1))
    ELSE CleanSegs(Tail(segs), Append(acc, Head(segs)))

cleanPath(path) ==
    LET np == CleanSegs(path, <<>>)
    IN IF path # <<>> /\ path[Len(path)] = <<>> /\ np # <<>> THEN Append(np, <<>>) ELSE np

\* the mux with the root pattern "GET /{$}": only the path / goes to
\* HomeHandler, every other unmatched path gets the mux's own error reply
Mux_RootOnly(method, path) ==
    IF cleanPath(path) # path THEN "Redirect"
    ELSE IF method = "GET"
    THEN IF path = PathHealth THEN "HealthCheckHandler"
         ELSE IF path = PathUsers THEN "GetUsersHandler"
         ELSE IF path = PathVersion THEN "versionHandler"
         ELSE IF Len(path) = 3 /\ SubSeq(path, 1, 2) = PathUsers /\ path[3] # <<>>
              THEN "GetUserHandler"
         ELSE IF path = PathRoot THEN "HomeHandler"
         ELSE "MethodNotAllowed"
    ELSE IF method = "POST" /\ path = PathUsers THEN "CreateUserHandler"
    ELSE "MethodNotAllowed"

\* the patterns registered on the mux in main; a request whose path is not
\* its own cleaned form is answered by the mux with a redirect to the cleaned
\* path; otherwise the most specific pattern wins, "GET /" matches every
\* path, {id} matches one non-empty segment, and a path that only patterns of
\* another method match is answered 405 by the mux
Mux(method, path) ==
    IF cleanPath(path) # path THEN "Redirect"
    ELSE IF method = "GET"
    THEN IF path = PathHealth THEN "HealthCheckHandler"
         ELSE IF path = PathUsers THEN "GetUsersHandler"
         ELSE IF path = PathVersion THEN "versionHandler"
         ELSE IF Len(path) = 3 /\ SubSeq(path, 1, 2) = PathUsers /\ path[3] # <<>>
              THEN "GetUserHandler"
         ELSE "HomeHandler"
    ELSE IF method = "POST" /\ path = PathUsers THEN "CreateUserHandler"
    ELSE "MethodNotAllowed"

\* a connection slot nobody uses
FreeConn ==
    [phase |-> "free", next |-> "", req |-> Request("", <<>>, 0),
     w |-> newResponseWriter, direct |-> UnderlyingWriter, calls |-> 0, logCount |-> 0, logStatus |-> 0]

\* a connection counted as idle as soon as the innermost handler has returned
Active_UntilHandlerReturns(c) == c.phase = "handling"

\* a connection is idle for Shutdown when no request is being served on it
Active(c) == c.phase \in {"handling", "returned", "logged"}

AllIdle == \A r \in Conns : ~Active(conn[r])

\* os.Exit: the process is gone, requests still being served get no response
KillConns == [r \in Conns |-> IF Active(conn[r]) THEN [conn[r] EXCEPT !.phase = "killed"]
                                                  ELSE conn[r]]

Log(level, msg) == [level |-> level, msg |-> msg]

(***************************************************************************)
(* Initial state: main has built the handler chain and the server, started *)
(* the server goroutine and registered the signal channel.                 *)
(***************************************************************************)
Init ==
    /\ TestMode = FALSE
    /\ conn = [r \in Conns |-> FreeConn]
    /\ srvPc = "start"
    /\ mainPc = "waiting"
    /\ inShutdown = FALSE
    /\ sigChan = 0
    /\ timer = "unset"
    /\ exitCode = -1
    /\ shutdownErr = ""
    /\ mainLog = <<>>
    /\ environ = EnvUnset
    /\ cfg = LoadConfig(EnvUnset)

(***************************************************************************)
(* The server goroutine (main.go, go func() { srv.ListenAndServe() })      *)
(***************************************************************************)
\* ListenAndServe begins: a server already shut down returns ErrServerClosed,
\* which the goroutine ignores
ListenAndServe ==
    /\ ~exited
    /\ srvPc = "start"
    /\ srvPc' = IF inShutdown THEN "closed" ELSE "listen"
    /\ UNCHANGED <<configVars, TestMode, conn, mainPc, inShutdown, sigChan, timer, exitCode, shutdownErr, mainLog>>

\* net.Listen succeeds
BindOK ==
    /\ ~exited
    /\ srvPc = "listen"
    /\ srvPc' = "bound"
    /\ UNCHANGED <<configVars, TestMode, conn, mainPc, inShutdown, sigChan, timer, exitCode, shutdownErr, mainLog>>

\* mutant: the goroutine logs the bind error and ends without os.Exit
BindFail_LogOnly ==
    /\ ~exited
    /\ srvPc = "listen"
    /\ srvPc' = "failed"
    /\ mainLog' = Append(mainLog, Log("ERROR", "Server failed to start"))
    /\ UNCHANGED <<configVars, TestMode, conn, mainPc, inShutdown, sigChan, timer, exitCode, shutdownErr>>

\* net.Listen fails (port in use): the error is logged and os.Exit(1) runs
BindFail ==
    /\ ~exited
    /\ srvPc = "listen"
    /\ srvPc' = "failed"
    /\ mainLog' = Append(mainLog, Log("ERROR", "Server failed to start"))
    /\ exitCode' = 1
    /\ conn' = KillConns
    /\ UNCHANGED <<configVars, TestMode, mainPc, inShutdown, sigChan, timer, shutdownErr>>

\* Serve registers the listener unless Shutdown ran in between
Serve ==
    /\ ~exited
    /\ srvPc = "bound"
    /\ srvPc' = IF inShutdown THEN "closed" ELSE "serving"
    /\ UNCHANGED <<configVars, TestMode, conn, mainPc, inShutdown, sigChan, timer, exitCode, shutdownErr, mainLog>>

\* the goroutine without the err != http.ErrServerClosed test: the return of
\* Serve after Shutdown takes the fatal path
ServeReturn_Fatal ==
    /\ ~exited
    /\ srvPc = "serving"
    /\ inShutdown
    /\ srvPc' = "closed"
    /\ mainLog' = Append(mainLog, Log("ERROR", "Server failed to start"))
    /\ exitCode' = 1
    /\ conn' = KillConns
    /\ UNCHANGED <<configVars, TestMode, mainPc, inShutdown, sigChan, timer, shutdownErr>>

\* Accept fails on the listener Shutdown closed: Serve returns ErrServerClosed
ServeReturn ==
    /\ ~exited
    /\ srvPc = "serving"
    /\ inShutdown
    /\ srvPc' = "closed"
    /\ UNCHANGED <<configVars, TestMode, conn, mainPc, inShutdown, sigChan, timer, exitCode, shutdownErr, mainLog>>

\* mutant: Shutdown leaves the listener open until Serve returns
ListenerOpen_AfterShutdown == srvPc = "serving"

\* the accept loop takes connections while the listener is open
ListenerOpen == srvPc = "serving" /\ ~inShutdown

(***************************************************************************)
(* main after signal.Notify (main.go)                                      *)
(***************************************************************************)
Signals == {"SIGINT", "SIGTERM"}

\* a signal that, once Shutdown runs, gets the default disposition again and
\* kills the process
Signal_KillsWhileShuttingDown(sig) ==
    /\ ~exited
    /\ sigChan' = 1
    /\ exitCode' = IF inShutdown THEN 2 ELSE exitCode
    /\ conn' = IF inShutdown THEN KillConns ELSE conn
    /\ UNCHANGED <<configVars, TestMode, srvPc, mainPc, inShutdown, timer, shutdownErr, mainLog>>

\* the runtime delivers a registered signal with a non-blocking send: a signal
\* that finds the channel full is dropped
Signal(sig) ==
    /\ ~exited
    /\ sigChan' = 1
    /\ UNCHANGED <<configVars, TestMode, conn, srvPc, mainPc, inShutdown, timer, exitCode, shutdownErr, mainLog>>

\* <-c returns; main logs and creates the context with the 15 s deadline
ReceiveSignal ==
    /\ ~exited
    /\ mainPc = "waiting"
    /\ sigChan = 1
    /\ sigChan' = 0
    /\ mainPc' = "signalled"
    /\ timer' = "running"
    /\ mainLog' = Append(mainLog, Log("INFO", "Server is shutting down..."))
    /\ UNCHANGED <<configVars, TestMode, conn, srvPc, inShutdown, exitCode, shutdownErr>>

\* the deadline of the context passes
DeadlineElapse ==
    /\ ~exited
    /\ timer = "running"
    /\ timer' = "expired"
    /\ UNCHANGED <<configVars, TestMode, conn, srvPc, mainPc, inShutdown, sigChan, exitCode, shutdownErr, mainLog>>

\* srv.Shutdown(ctx) begins: the flag is set and the listeners are closed
ShutdownBegin ==
    /\ ~exited
    /\ mainPc = "signalled"
    /\ inShutdown' = TRUE
    /\ mainPc' = "draining"
    /\ UNCHANGED <<configVars, TestMode, conn, srvPc, sigChan, timer, exitCode, shutdownErr, mainLog>>

\* mutant: Shutdown does not wait for the connections (as srv.Close would)
DrainComplete_NoWait == TRUE

\* Shutdown returns nil when a poll finds every connection idle
DrainComplete == AllIdle

\* mutant: the context has no deadline (context.Background())
DeadlineExceeded_Never == FALSE

\* ctx.Done() is ready once the deadline has passed
DeadlineExceeded == timer = "expired"

\* mutant: main drops the error of Shutdown
LogShutdownError_Dropped(err) == mainLog

\* what main does with the error of Shutdown: nil is not logged
LogShutdownError(err) ==
    IF err # "nil" THEN Append(mainLog, Log("ERROR", "Server forced to shutdown")) ELSE mainLog

\* Shutdown returns err to main, which logs it when it is not nil
ShutdownReturns(err) ==
    /\ shutdownErr' = err
    /\ mainLog' = LogShutdownError(err)
    /\ mainPc' = "returned"

\* Shutdown, after the Serve loops have returned, polls the connections: it
\* returns nil when all are idle, and otherwise waits in a select for the
\* context or for the next tick
ShutdownPoll ==
    /\ ~exited
    /\ mainPc = "draining"
    /\ srvPc # "serving"
    /\ IF DrainComplete
       THEN ShutdownReturns("nil")
       ELSE /\ mainPc' = "polling"
            /\ UNCHANGED <<shutdownErr, mainLog>>
    /\ UNCHANGED <<configVars, TestMode, conn, srvPc, inShutdown, sigChan, timer, exitCode>>

\* the poll ticker fires first: poll again
ShutdownTick ==
    /\ ~exited
    /\ mainPc = "polling"
    /\ mainPc' = "draining"
    /\ UNCHANGED <<configVars, TestMode, conn, srvPc, inShutdown, sigChan, timer, exitCode, shutdownErr, mainLog>>

\* ctx.Done() fires first: Shutdown gives up and returns ctx.Err()
ShutdownTimeout ==
    /\ ~exited
    /\ mainPc = "polling"
    /\ DeadlineExceeded
    /\ ShutdownReturns("context deadline exceeded")
    /\ UNCHANGED <<configVars, TestMode, conn, srvPc, inShutdown, sigChan, timer, exitCode>>

\* main logs "Server exited properly" and calls os.Exit(0)
Exit ==
    /\ ~exited
    /\ mainPc = "returned"
    /\ mainPc' = "exited"
    /\ mainLog' = Append(mainLog, Log("INFO", "Server exited properly"))
    /\ exitCode' = 0
    /\ conn' = KillConns
    /\ UNCHANGED <<configVars, TestMode, srvPc, inShutdown, sigChan, timer, shutdownErr>>

(***************************************************************************)
(* One request on connection r: LoggingMiddleware around the handler       *)
(***************************************************************************)
\* what LoggingMiddleware is given as next: the mux of main, or any handler
NextHandlers == {"mux", "any"}

\* status codes the arbitrary handler passes to WriteHeader
AnyCodes == {StatusOK, StatusInternalServerError}

\* the server accepts a connection and reads a request; LoggingMiddleware
\* wraps the response sink and calls next.ServeHTTP
Accept(r, requests, nexts) ==
    /\ ~exited
    /\ ListenerOpen
    /\ conn[r].phase = "free"
    /\ \E nx \in nexts :
        \E rq \in (IF nx = "mux" THEN requests ELSE {Request("GET", PathRoot, 0)}) :
            conn' = [conn EXCEPT ![r] =
                        [FreeConn EXCEPT !.phase = "handling", !.next = nx, !.req = rq]]
    /\ UNCHANGED <<configVars, TestMode, lifecycleVars>>

\* the handler the mux selected has run on the wrapper and returned; direct
\* is what the same run of the handler (same request, same draws) does to the
\* server's writer when it is given that writer instead of the wrapper
Returned(r, w, direct) ==
    /\ conn' = [conn EXCEPT ![r].phase = "returned", ![r].w = w, ![r].direct = direct]
    /\ UNCHANGED <<configVars, TestMode, lifecycleVars>>

Dispatched(r, handler) ==
    /\ ~exited
    /\ conn[r].phase = "handling"
    /\ conn[r].next = "mux"
    /\ Mux(conn[r].req.method, conn[r].req.path) = handler

ServeHome(r) ==
    /\ Dispatched(r, "HomeHandler")
    /\ \E n10 \in 0..9 : Returned(r, HomeHandler(conn[r].w, n10), HomeHandler(conn[r].direct, n10))

ServeHealth(r) ==
    /\ Dispatched(r, "HealthCheckHandler")
    /\ Returned(r, HealthCheckHandler(conn[r].w), HealthCheckHandler(conn[r].direct))

ServeGetUsers(r) ==
    /\ Dispatched(r, "GetUsersHandler")
    /\ \E n5 \in 0..4 : Returned(r, GetUsersHandler(conn[r].w, n5), GetUsersHandler(conn[r].direct, n5))

ServeCreateUser(r) ==
    /\ Dispatched(r, "CreateUserHandler")
    /\ \E n3 \in 0..2, n4 \in 0..3 :
        Returned(r, CreateUserHandler(conn[r].w, conn[r].req.clen, n3, n4),
                    CreateUserHandler(conn[r].direct, conn[r].req.clen, n3, n4))

ServeGetUser(r) ==
    /\ Dispatched(r, "GetUserHandler")
    /\ \E errorChance \in 0..9, n2 \in 0..1 :
        Returned(r, GetUserHandler(conn[r].w, conn[r].req.path[3], errorChance, n2),
                    GetUserHandler(conn[r].direct, conn[r].req.path[3], errorChance, n2))

ServeVersion(r) ==
    /\ Dispatched(r, "versionHandler")
    /\ \E ok \in BOOLEAN, version \in {"", "v1.0.0"} :
        Returned(r, versionHandler(conn[r].w, ok, version),
                    versionHandler(conn[r].direct, ok, version))

\* the mux's own reply when only patterns of another method match the path
ServeMethodNotAllowed(r) ==
    /\ Dispatched(r, "MethodNotAllowed")
    /\ Returned(r, HttpError(conn[r].w, "Method Not Allowed", 405),
                    HttpError(conn[r].direct, "Method Not Allowed", 405))

\* http.Redirect(w, r, url, 301) for a GET: Location and Content-Type are
\* set, the status line is 301 and the body is a link to the new place
Redirect(w) ==
    Write(CallWriteHeader(HeaderSet(w, "text/html; charset=utf-8"), 301),
          [text |-> <<"Moved Permanently">>])

\* the mux's own reply to a path that is not in cleaned form
ServeRedirect(r) ==
    /\ Dispatched(r, "Redirect")
    /\ Returned(r, Redirect(conn[r].w), Redirect(conn[r].direct))

\* an arbitrary handler makes one call on the ResponseWriter it was given;
\* direct is the effect of the same call on the server's writer
AnyStep(r, w, direct) ==
    /\ ~exited
    /\ conn[r].phase = "handling"
    /\ conn[r].next = "any"
    /\ conn[r].calls < MaxCalls
    /\ conn' = [conn EXCEPT ![r].w = w, ![r].direct = direct, ![r].calls = @ + 1]
    /\ UNCHANGED <<configVars, TestMode, lifecycleVars>>

AnyWriteHeader(r) ==
    \E code \in AnyCodes :
        AnyStep(r, CallWriteHeader(conn[r].w, code), CallWriteHeader(conn[r].direct, code))

AnyWrite(r) ==
    AnyStep(r, Write(conn[r].w, [text |-> <<"data">>]),
               Write(conn[r].direct, [text |-> <<"data">>]))

\* ... or calls the exported JSONResponse with a value json cannot encode
AnyJSONResponse(r) ==
    AnyStep(r, JSONResponse(conn[r].w, StatusOK, Unsupported),
               JSONResponse(conn[r].direct, StatusOK, Unsupported))

\* a streaming handler's first lines: flusher, ok := w.(http.Flusher); without
\* one it answers http.Error(w, "Streaming unsupported", 500), with one it
\* flushes what it has written
StreamOrRefuse(w) ==
    IF ImplementsFlusher(w)
    THEN Flush(w)
    ELSE HttpError(w, "Streaming unsupported", StatusInternalServerError)

\* ... or asks the ResponseWriter for http.Flusher
AnyFlush(r) == AnyStep(r, StreamOrRefuse(conn[r].w), StreamOrRefuse(conn[r].direct))

\* ... and returns
AnyReturn(r) ==
    /\ ~exited
    /\ conn[r].phase = "handling"
    /\ conn[r].next = "any"
    /\ conn' = [conn EXCEPT ![r].phase = "returned"]
    /\ UNCHANGED <<configVars, TestMode, lifecycleVars>>

\* ... or panics.  LoggingMiddleware has no deferred call and no recover, so
\* the panic unwinds through it to the server, which recovers it, logs it and
\* closes the connection without writing the buffered response
AnyPanic(r) ==
    /\ ~exited
    /\ conn[r].phase = "handling"
    /\ conn[r].next = "any"
    /\ conn' = [conn EXCEPT ![r].phase = "aborted"]
    /\ UNCHANGED <<configVars, TestMode, lifecycleVars>>

\* LoggingMiddleware with one responseWriter shared by all requests: the
\* record carries the status last captured on the first connection's wrapper
LogRequestCompleted_SharedWrapper(r) ==
    /\ ~exited
    /\ conn[r].phase = "returned"
    /\ conn' = [conn EXCEPT ![r].phase = "logged",
                            ![r].logCount = @ + 1,
                            ![r].logStatus = conn[1].w.statusCode]
    /\ UNCHANGED <<configVars, TestMode, lifecycleVars>>

\* LoggingMiddleware after next.ServeHTTP returned: slog.Info("Request
\* completed", ..., "status", rw.statusCode, ...)
LogRequestCompleted(r) ==
    /\ ~exited
    /\ conn[r].phase = "returned"
    /\ conn' = [conn EXCEPT ![r].phase = "logged",
                            ![r].logCount = @ + 1,
                            ![r].logStatus = conn[r].w.statusCode]
    /\ UNCHANGED <<configVars, TestMode, lifecycleVars>>

\* the server finishes the request: a response without a status line gets 200,
\* the buffered response goes to the client and the connection becomes idle
FinishRequest(r) ==
    /\ ~exited
    /\ conn[r].phase = "logged"
    /\ conn' = [conn EXCEPT ![r].phase = "done",
                            ![r].w = UnderlyingWriteHeader(conn[r].w, StatusOK),
                            ![r].direct = UnderlyingWriteHeader(conn[r].direct, StatusOK)]
    /\ UNCHANGED <<configVars, TestMode, lifecycleVars>>

\* the connection goes away (or carries its next request)
CloseConn(r) ==
    /\ ~exited
    /\ conn[r].phase \in {"done", "aborted"}
    /\ conn' = [conn EXCEPT ![r] = FreeConn]
    /\ UNCHANGED <<configVars, TestMode, lifecycleVars>>

Next ==
    \/ ListenAndServe
    \/ BindOK
    \/ BindFail
    \/ Serve
    \/ ServeReturn
    \/ \E sig \in Signals : Signal(sig)
    \/ ReceiveSignal
    \/ DeadlineElapse
    \/ ShutdownBegin
    \/ ShutdownPoll
    \/ ShutdownTick
    \/ ShutdownTimeout
    \/ Exit
    \/ \E r \in Conns :
        \/ Accept(r, LifecycleRequests, {"mux"})
        \/ ServeHealth(r)
        \/ ServeCreateUser(r)
        \/ LogRequestCompleted(r)
        \/ FinishRequest(r)
        \/ CloseConn(r)

\* the process as main builds it: main, the server goroutine and up to
\* MaxConns connections served at the same time
Spec == Init /\ [][Next]_vars

(***************************************************************************)
(* The handler chain on its own: a serving server, one connection at a     *)
(* time, every request of Requests and any downstream handler, in both     *)
(* values of TestMode (the tests set it, main leaves it false).            *)
(***************************************************************************)
HandlerInit ==
    /\ TestMode \in BOOLEAN
    /\ conn = [r \in Conns |-> FreeConn]
    /\ srvPc = "serving"
    /\ mainPc = "waiting"
    /\ inShutdown = FALSE
    /\ sigChan = 0
    /\ timer = "unset"
    /\ exitCode = -1
    /\ shutdownErr = ""
    /\ mainLog = <<>>
    /\ environ = EnvUnset
    /\ cfg = LoadConfig(EnvUnset)

HandlerNext ==
    \/ Accept(1, Requests, NextHandlers)
    \/ ServeHome(1)
    \/ ServeHealth(1)
    \/ ServeGetUsers(1)
    \/ ServeCreateUser(1)
    \/ ServeGetUser(1)
    \/ ServeVersion(1)
    \/ ServeMethodNotAllowed(1)
    \/ ServeRedirect(1)
    \/ AnyWriteHeader(1)
    \/ AnyWrite(1)
    \/ AnyJSONResponse(1)
    \/ AnyFlush(1)
    \/ AnyReturn(1)
    \/ AnyPanic(1)
    \/ LogRequestCompleted(1)
    \/ FinishRequest(1)
    \/ CloseConn(1)

HandlerSpec == HandlerInit /\ [][HandlerNext]_vars

\* the process under the scheduling the Go runtime gives it: a goroutine that
\* can run does run, timers fire, and a select whose context is done takes
\* that case.  Connections get no fairness: a handler may run forever.
FairSpec ==
    /\ Spec
    /\ WF_vars(ReceiveSignal)
    /\ WF_vars(ShutdownBegin)
    /\ WF_vars(ServeReturn)
    /\ WF_vars(DeadlineElapse)
    /\ WF_vars(ShutdownPoll)
    /\ WF_vars(ShutdownTick)
    /\ SF_vars(ShutdownTimeout)
    /\ WF_vars(Exit)

(***************************************************************************)
(* What the client of a connection has received                            *)
(***************************************************************************)
\* the status line the client got: none (0) unless the request was finished
ClientStatus(c) == IF c.phase = "done" THEN c.w.status ELSE 0

\* the body the client got
ClientBody(c) == IF c.phase = "done" THEN c.w.body ELSE <<>>

\* the request of c is a GET of path p routed by the mux
IsGet(c, p) == c.next = "mux" /\ c.req.method = "GET" /\ c.req.path = p

\* the handler of c has returned
HandlerReturned(c) == c.phase \in {"returned", "logged", "done"}

(***************************************************************************)
(* C1..C4: the status-capturing wrapper and LoggingMiddleware              *)
(***************************************************************************)
\* C1: for every finished request, the status logged in "Request completed"
\* is the status line the transport sent for that response
C1_LoggedStatusIsSentStatus ==
    \A r \in Conns :
        conn[r].phase = "done" => conn[r].logStatus = conn[r].w.status

\* C2: a request whose handler panicked before sending a response is answered
\* with a 500 response
C2_PanicAnsweredWith500 ==
    \A r \in Conns :
        (conn[r].phase = "aborted" /\ ~conn[r].w.wroteHeader)
            => ClientStatus(conn[r]) = StatusInternalServerError

\* C3: a request whose handler panicked still has its "Request completed"
\* record, with status 500
C3_PanicLoggedAs500 ==
    \A r \in Conns :
        conn[r].phase = "aborted"
            => conn[r].logCount >= 1 /\ conn[r].logStatus = StatusInternalServerError

\* C4: every request that LoggingMiddleware handled has exactly one "Request
\* completed" record, and none while its handler is still running
C4_ExactlyOneLogAfterReturn ==
    \A r \in Conns :
        /\ conn[r].phase \in {"handling", "returned"} => conn[r].logCount = 0
        /\ conn[r].phase \in {"logged", "done", "aborted"} => conn[r].logCount = 1

(***************************************************************************)
(* C5..C9: the lifecycle of the process                                    *)
(***************************************************************************)
\* this step accepts a connection
Accepts == \E r \in Conns : conn[r].phase = "free" /\ conn'[r].phase = "handling"

\* a request cut off by the exit of the process was still being served when
\* the deadline of the shutdown context passed
CutOffOnlyPastDeadline ==
    \A r \in Conns : conn[r].phase = "killed" => timer = "expired"

\* C5 as stated: from the moment main has received the signal no connection is
\* accepted, and a request is cut off by the exit only past the deadline
C5_NoAcceptOnceSignalReceived ==
    /\ [][mainPc # "waiting" => ~Accepts]_vars
    /\ []CutOffOnlyPastDeadline

\* C5 amended: from the moment main has called srv.Shutdown no connection is
\* accepted (between <-c and that call the listener is still open), and a
\* request is cut off by the exit only past the deadline
C5_NoAcceptOnceShutdownCalled ==
    /\ [][inShutdown => ~Accepts]_vars
    /\ []CutOffOnlyPastDeadline

\* Shutdown is waiting, within the deadline, for a request that was accepted
\* before it closed the listener and is about to get its response
C5_Witness ==
    /\ mainPc \in {"draining", "polling"}
    /\ timer = "running"
    /\ \E r \in Conns : conn[r].phase = "logged"

\* C6: once main has received a termination signal the process eventually
\* exits, whatever the requests in flight do
C6_SignalLeadsToExit == (mainPc # "waiting") ~> exited

\* the process has exited although a request never finished
C6_Witness ==
    /\ mainPc = "exited"
    /\ timer = "expired"
    /\ \E r \in Conns : conn[r].phase = "killed"

\* Shutdown gave up at the deadline
Forced == shutdownErr = "context deadline exceeded"

Logged(level, msg) == \E i \in 1..Len(mainLog) : mainLog[i] = Log(level, msg)

\* after os.Exit no connection of the process is left open
ConnsClosed == \A r \in Conns : ~Active(conn[r])

Lifecycle ==
    IF exited THEN "Stopped"
    ELSE IF inShutdown THEN "ShuttingDown"
    ELSE IF srvPc = "serving" THEN "Serving"
    ELSE "Starting"

Rank(l) ==
    CASE l = "Starting" -> 0
      [] l = "Serving" -> 1
      [] l = "ShuttingDown" -> 2
      [] l = "Stopped" -> 3

C9_BindFailureIsFatal ==
    srvPc = "failed"
        => /\ exitCode = 1
           /\ mainLog # <<>>
           /\ mainLog[Len(mainLog)] = Log("ERROR", "Server failed to start")

\* the bind failed while main was still blocked on the signal channel
C9_Witness ==
    /\ srvPc = "failed"
    /\ mainPc = "waiting"
    /\ exitCode = 1

(***************************************************************************)
(* C10: the health route                                                   *)
(***************************************************************************)
HealthyBody == <<[json |-> [status |-> "healthy"]]>>

\* C10: a GET /api/health whose handler returned has status 200 and the body
\* {"status":"healthy"}, in both values of TestMode and whatever was served
\* before; the client receives exactly that
C10_HealthAlwaysHealthy ==
    \A r \in Conns :
        IsGet(conn[r], PathHealth) =>
            /\ HandlerReturned(conn[r]) =>
                /\ conn[r].w.status = StatusOK
                /\ conn[r].w.body = HealthyBody
                /\ conn[r].w.sentCT = "application/json"
            /\ conn[r].phase = "done" =>
                /\ ClientStatus(conn[r]) = StatusOK
                /\ ClientBody(conn[r]) = HealthyBody

\* a client got the health response while fault injection was active
C10_Witness ==
    /\ ~TestMode
    /\ \E r \in Conns :
        /\ IsGet(conn[r], PathHealth)
        /\ conn[r].phase = "done"
        /\ ClientBody(conn[r]) = HealthyBody

(***************************************************************************)
(* Two runs side by side: the same chain serves one request on connection  *)
(* 1 and one on connection 2, each with its own random draws.              *)
(***************************************************************************)
Runs == {1, 2}

PairNext ==
    \E r \in Runs :
        \/ Accept(r, Requests, {"mux"})
        \/ ServeHome(r)
        \/ ServeHealth(r)
        \/ ServeGetUsers(r)
        \/ ServeCreateUser(r)
        \/ ServeGetUser(r)
        \/ ServeVersion(r)
        \/ ServeMethodNotAllowed(r)
        \/ ServeRedirect(r)
        \/ LogRequestCompleted(r)
        \/ FinishRequest(r)
        \/ CloseConn(r)

PairSpec == HandlerInit /\ [][PairNext]_vars

\* the handler the mux selects for the request of c takes random draws
FaultInjectable(c) ==
    c.next = "mux"
    /\ Mux(c.req.method, c.req.path)
           \in {"HomeHandler", "GetUsersHandler", "CreateUserHandler", "GetUserHandler"}

(***************************************************************************)
(* C11..C20: the route handlers                                            *)
(***************************************************************************)
\* C11: in test mode two runs given the same request (method, path, id,
\* content length) to HomeHandler, GetUsersHandler, CreateUserHandler or
\* GetUserHandler deliver the same status and the same body, whatever the
\* random draws of each run are
C11_TestModeDeterministic ==
    TestMode =>
        \A r1, r2 \in Runs :
            (/\ conn[r1].phase = "done"
             /\ conn[r2].phase = "done"
             /\ FaultInjectable(conn[r1])
             /\ conn[r1].req = conn[r2].req)
            => (/\ ClientStatus(conn[r1]) = ClientStatus(conn[r2])
                /\ ClientBody(conn[r1]) = ClientBody(conn[r2]))

\* both runs have answered GET /api/users/15 in test mode, the request on
\* which every fault of GetUserHandler can strike outside test mode
C11_Witness ==
    /\ TestMode
    /\ \A r \in Runs :
        /\ conn[r].phase = "done"
        /\ FaultInjectable(conn[r])
        /\ conn[r].req = Request("GET", PathUser(<<"1", "5">>), 0)

\* the request of c went to GetUserHandler; its {id} segment
IsGetUser(c) ==
    c.next = "mux" /\ Mux(c.req.method, c.req.path) = "GetUserHandler"

IdStr(c) == c.req.path[3]

\* the document of a success response that carries one user
UserDocument(id, name) ==
    [json |-> ("status" :> "success" @@ "user" :> User(id, name))]

\* C12: in test mode GET /api/users/{id} with a positive integer id is
\* answered 200 with status "success" and the user whose ID is id and whose
\* name is "User <id>" in decimal: id 1 gives "User 1", id 15 "User 15"
C12_TestModeGetUserSucceeds ==
    TestMode =>
        \A r \in Conns :
            LET c == conn[r]
                parsed == Atoi(IdStr(c))
            IN (c.phase = "done" /\ IsGetUser(c) /\ parsed.ok /\ parsed.val > 0)
               => /\ ClientStatus(c) = StatusOK
                  /\ c.w.sentCT = "application/json"
                  /\ Len(ClientBody(c)) = 1
                  /\ \E name \in {<<"User ">> \o StripZeros(d) : d \in {IdStr(c), Tail(IdStr(c))}} :
                        ClientBody(c)[1] = UserDocument(parsed.val, name)
                  /\ (IdStr(c) = <<"1">>
                        => ClientBody(c)[1] = UserDocument(1, <<"User ", "1">>))

\* GET /api/users/15 was answered in test mode
C12_Witness ==
    /\ TestMode
    /\ conn[1].phase = "done"
    /\ IsGetUser(conn[1])
    /\ IdStr(conn[1]) = <<"1", "5">>
    /\ ClientStatus(conn[1]) = StatusOK

\* the response c delivered is JSON of exactly the shape
\* {"status":"error","message":<string>}
ErrorShaped(c) ==
    /\ c.w.sentCT = "application/json"
    /\ Len(ClientBody(c)) = 1
    /\ DOMAIN ClientBody(c)[1] = {"json"}
    /\ DOMAIN ClientBody(c)[1].json = {"status", "message"}
    /\ ClientBody(c)[1].json.status = "error"
    /\ ClientBody(c)[1].json.message \in Seq(STRING)

\* C13: in both values of TestMode, GET /api/users/{id} with an id that is not
\* an integer or is an integer <= 0 is answered 400 with an error-shaped body,
\* never 200, 404 or 500
C13_InvalidIdIsBadRequest ==
    \A r \in Conns :
        LET c == conn[r]
            parsed == Atoi(IdStr(c))
        IN (c.phase = "done" /\ IsGetUser(c) /\ (~parsed.ok \/ parsed.val <= 0))
           => ClientStatus(c) = StatusBadRequest /\ ErrorShaped(c)

\* outside test mode, where the faults are live, GET /api/users/0 was answered
C13_Witness ==
    /\ ~TestMode
    /\ conn[1].phase = "done"
    /\ IsGetUser(conn[1])
    /\ IdStr(conn[1]) = <<"0">>
    /\ ClientStatus(conn[1]) = StatusBadRequest

\* the request of c went to CreateUserHandler
IsCreateUser(c) ==
    c.next = "mux" /\ Mux(c.req.method, c.req.path) = "CreateUserHandler"

\* C14: in test mode POST /api/users with a non-empty body is answered 201
\* with status "success", message "User created successfully" and a user
C14_TestModeCreateUserSucceeds ==
    TestMode =>
        \A r \in Conns :
            LET c == conn[r]
            IN (c.phase = "done" /\ IsCreateUser(c) /\ c.req.bodyLen > 0)
               => /\ ClientStatus(c) = StatusCreated
                  /\ c.w.sentCT = "application/json"
                  /\ Len(ClientBody(c)) = 1
                  /\ DOMAIN ClientBody(c)[1].json = {"status", "message", "user"}
                  /\ ClientBody(c)[1].json.status = "success"
                  /\ ClientBody(c)[1].json.message = <<"User created successfully">>
                  /\ ClientBody(c)[1].json.user.ID = 3

\* a POST /api/users with a body was answered in test mode
C14_Witness ==
    /\ TestMode
    /\ conn[1].phase = "done"
    /\ IsCreateUser(conn[1])
    /\ conn[1].req.bodyLen > 0
    /\ ClientStatus(conn[1]) = StatusCreated

\* C15: in both values of TestMode, POST /api/users with an empty body is
\* answered 400 with an error-shaped body, never 201
C15_EmptyBodyIsBadRequest ==
    \A r \in Conns :
        LET c == conn[r]
        IN (c.phase = "done" /\ IsCreateUser(c) /\ c.req.bodyLen = 0)
           => ClientStatus(c) = StatusBadRequest /\ ErrorShaped(c)

\* the message of the error document c delivered, <<>> when it is none
ErrorMessage(c) ==
    IF ErrorShaped(c) THEN ClientBody(c)[1].json.message ELSE <<>>

\* err.Error() of validateAndCreateUser when processUserData failed
ProcessingFailed == <<"user processing failed: ", "database constraint violation">>

\* C16: a POST /api/users that fails because processUserData failed is
\* answered 500; 400 is the answer only to an empty body or a validation error
C16_ProcessingFailureIs500 ==
    \A r \in Conns :
        LET c == conn[r]
        IN (c.phase = "done" /\ IsCreateUser(c))
           => /\ (ErrorMessage(c) = ProcessingFailed
                    => ClientStatus(c) = StatusInternalServerError)
              /\ (ClientStatus(c) = StatusBadRequest
                    => ErrorMessage(c) \in {<<"Empty request body">>,
                                            <<"validation error", ": required fields missing">>})

\* the request of c matched a registered route and went to its handler
Routed(c) ==
    c.next = "mux" /\ Mux(c.req.method, c.req.path) # "MethodNotAllowed"

\* C17: every response with a status >= 400 that a route's handler produced,
\* on whatever path through the handler, has Content-Type application/json
\* and a body of exactly the shape {"status":"error","message":<string>}
C17_ErrorsAreErrorShaped ==
    \A r \in Conns :
        LET c == conn[r]
        IN (c.phase = "done" /\ Routed(c) /\ ClientStatus(c) >= StatusBadRequest)
           => ErrorShaped(c)

\* the "not found" answer to GET /api/users/15 was delivered
C17_Witness ==
    /\ conn[1].phase = "done"
    /\ Routed(conn[1])
    /\ ClientStatus(conn[1]) = StatusNotFound
    /\ ErrorMessage(conn[1]) = <<"User with ID ", "1", "5", " not found">>

\* C18: with TestMode false, as setupAPITest leaves it, the well-formed
\* requests of TestAPIEndpoints get their success status: GET /api/users 200
\* with exactly two users, GET /api/users/1 200 with user 1, POST /api/users
\* with a JSON body 201
C18_IntegrationRequestsSucceed ==
    ~TestMode =>
        \A r \in Conns :
            LET c == conn[r]
            IN c.phase = "done" =>
                /\ IsGet(c, PathUsers)
                    => /\ ClientStatus(c) = StatusOK
                       /\ Len(ClientBody(c)[1].json.users) = 2
                /\ IsGet(c, PathUser(<<"1">>))
                    => /\ ClientStatus(c) = StatusOK
                       /\ ClientBody(c)[1] = UserDocument(1, <<"User ", "1">>)
                /\ (IsCreateUser(c) /\ c.req.clen > 0)
                    => ClientStatus(c) = StatusCreated

\* the statuses the interface table allows the route served by a handler
AllowedStatuses(handler) ==
    CASE handler = "HomeHandler" -> {StatusOK, StatusServiceUnavailable}
      [] handler = "HealthCheckHandler" -> {StatusOK}
      [] handler = "GetUsersHandler" -> {StatusOK, StatusInternalServerError}
      [] handler = "CreateUserHandler" ->
            {StatusCreated, StatusBadRequest, StatusInternalServerError}
      [] handler = "GetUserHandler" ->
            {StatusOK, StatusBadRequest, StatusNotFound, StatusInternalServerError}
      [] OTHER -> {}

TableRoutes ==
    {"HomeHandler", "HealthCheckHandler", "GetUsersHandler", "CreateUserHandler",
     "GetUserHandler"}

\* C19: in both modes the status of every response of a route is one the
\* interface table lists for it: GET / 200 or 503, GET /api/health 200,
\* GET /api/users 200 or 500, POST /api/users 201, 400 or 500,
\* GET /api/users/{id} 200, 400, 404 or 500
C19_StatusesWithinTable ==
    \A r \in Conns :
        LET c == conn[r]
            handler == Mux(c.req.method, c.req.path)
        IN (c.phase = "done" /\ c.next = "mux" /\ handler \in TableRoutes)
           => ClientStatus(c) \in AllowedStatuses(handler)

\* GET / was answered 503
C19_Witness ==
    /\ conn[1].phase = "done"
    /\ IsGet(conn[1], PathRoot)
    /\ ClientStatus(conn[1]) = StatusServiceUnavailable

\* what the client observes of a sink: status line, headers, body
Observed(w) == [status |-> w.status, contentType |-> w.sentCT, body |-> w.body]

\* C20: for every handler and request, the status, headers and body the
\* client gets through LoggingMiddleware's responseWriter are those the same
\* run of the handler yields when it writes to the underlying ResponseWriter
C20_WrapperIsTransparent ==
    \A r \in Conns :
        conn[r].phase = "done" => Observed(conn[r].w) = Observed(conn[r].direct)

(***************************************************************************)
(* C21..C30                                                                *)
(***************************************************************************)
\* "Request completed" has been logged for the request of c
RequestLogged(c) == c.phase \in {"logged", "done"}

\* C21: under every interleaving of the requests served at the same time, the
\* status in a request's "Request completed" record is the one captured by
\* that request's own responseWriter and sent on that request's own response
C21_LoggedStatusIsOwnStatus ==
    \A r \in Conns :
        RequestLogged(conn[r])
        => /\ conn[r].logStatus = conn[r].w.statusCode
           /\ conn[r].w.wroteHeader => conn[r].logStatus = conn[r].w.status

\* two requests served at the same time were logged with different statuses
C21_Witness ==
    \E r1, r2 \in Conns :
        /\ r1 # r2
        /\ conn[r1].phase = "logged"
        /\ conn[r2].phase = "logged"
        /\ conn[r1].logStatus = StatusOK
        /\ conn[r2].logStatus = StatusBadRequest

\* the handler of c has answered with status code
Answered(c, code) == HandlerReturned(c) /\ c.w.status = code

\* C22: whatever requests were served before or are served alongside, a
\* successful GET /api/users carries exactly the users {1, John Doe} and
\* {2, Jane Smith}, and a successful POST /api/users the user with ID 3
C22_RequestsLeaveNoTrace ==
    \A r \in Runs :
        LET c == conn[r]
        IN /\ (IsGet(c, PathUsers) /\ Answered(c, StatusOK))
                => c.w.body = <<[json |-> ("status" :> "success"
                                    @@ "users" :> <<User(1, <<"John Doe">>),
                                                    User(2, <<"Jane Smith">>)>>)]>>
           /\ (IsCreateUser(c) /\ Answered(c, StatusCreated))
                => c.w.body[1].json.user.ID = 3

\* a POST /api/users has been answered 201 and delivered, and a GET
\* /api/users on the other connection has been answered 200
C22_Witness ==
    \E r1, r2 \in Runs :
        /\ conn[r1].phase = "done"
        /\ IsCreateUser(conn[r1])
        /\ ClientStatus(conn[r1]) = StatusCreated
        /\ conn[r2].phase = "returned"
        /\ IsGet(conn[r2], PathUsers)
        /\ Answered(conn[r2], StatusOK)

\* the request of c was dispatched to one of the five handlers of the table
TableRouted(c) ==
    c.next = "mux" /\ Mux(c.req.method, c.req.path) \in TableRoutes

\* C23: every invocation of HomeHandler, HealthCheckHandler, GetUsersHandler,
\* CreateUserHandler or GetUserHandler, on every path, calls WriteHeader
\* exactly once, writes one JSON body and returns: the status it set is the
\* status line sent, and the request is never aborted by a fault
C23_OneStatusOneBodyThenReturn ==
    \A r \in Conns :
        LET c == conn[r]
        IN (TableRouted(c) /\ c.phase # "handling")
           => /\ HandlerReturned(c)
              /\ c.w.headerCalls = 1
              /\ c.w.status = c.w.statusCode
              /\ c.w.sentCT = "application/json"
              /\ Len(c.w.body) = 1
              /\ DOMAIN c.w.body[1] = {"json"}

\* CreateUserHandler has detected the empty body and returned
C23_Witness ==
    /\ conn[1].phase = "returned"
    /\ IsCreateUser(conn[1])
    /\ conn[1].req.clen = 0
    /\ conn[1].w.headerCalls = 1
    /\ conn[1].w.body[1].json.message = <<"Empty request body">>

\* C24: GET /api/users/{id} is answered 404 only outside test mode and only
\* for an id above 10, never for 1 <= id <= 10; and for every draw of the
\* request being handled, a failed database query is answered 500, so a 404
\* comes only after the query succeeded
C24_NotFoundOnlyAbove10AfterQuery ==
    \A r \in Conns :
        LET c == conn[r]
            id == Atoi(IdStr(c)).val
        IN /\ (IsGetUser(c) /\ HandlerReturned(c) /\ c.w.status = StatusNotFound)
                => ~TestMode /\ Atoi(IdStr(c)).ok /\ id > 10
           /\ (IsGetUser(c) /\ c.phase = "handling" /\ Atoi(IdStr(c)).ok /\ id > 0)
                => \A errorChance \in 0..9, n2 \in 0..1 :
                     LET out == GetUserHandler(c.w, IdStr(c), errorChance, n2)
                     IN /\ queryDatabase(id, errorChance) # <<>>
                            => out.status = StatusInternalServerError
                        /\ out.status = StatusNotFound
                            => queryDatabase(id, errorChance) = <<>> /\ id > 10

\* GET /api/users/1001 was answered 404
C24_Witness ==
    /\ ~TestMode
    /\ conn[1].phase = "done"
    /\ IsGetUser(conn[1])
    /\ IdStr(conn[1]) = <<"1", "0", "0", "1">>
    /\ ClientStatus(conn[1]) = StatusNotFound

(***************************************************************************)
(* Start of main with any value of ALLOWED_ORIGINS: config.LoadConfig      *)
(***************************************************************************)
ConfigInit ==
    /\ TestMode = FALSE
    /\ conn = [r \in Conns |-> FreeConn]
    /\ srvPc = "start"
    /\ mainPc = "waiting"
    /\ inShutdown = FALSE
    /\ sigChan = 0
    /\ timer = "unset"
    /\ exitCode = -1
    /\ shutdownErr = ""
    /\ mainLog = <<>>
    /\ environ \in EnvValues
    /\ cfg = NotLoaded

\* cfg := config.LoadConfig()
LoadConfigStep ==
    /\ ~cfg.loaded
    /\ cfg' = LoadConfig(environ)
    /\ UNCHANGED <<environ, TestMode, conn, lifecycleVars>>

ConfigSpec == ConfigInit /\ [][LoadConfigStep]_vars

\* C25: for every value of ALLOWED_ORIGINS the loaded AllowedOrigins has no
\* empty element and no element with leading or trailing whitespace, and
\* "a, b" yields ["a", "b"]
C25_OriginsSplitAndTrimmed ==
    cfg.loaded =>
        /\ \A i \in 1..Len(cfg.AllowedOrigins) :
              LET e == cfg.AllowedOrigins[i]
              IN e # <<>> /\ Head(e) # " " /\ e[Len(e)] # " "
        /\ environ = EnvSet(<<"a", ",", " ", "b">>)
              => cfg.AllowedOrigins = << <<"a">>, <<"b">> >>

\* srv.Shutdown returned nil: the drain completed before the deadline
Graceful == shutdownErr = "nil"

\* C26: once Shutdown has returned nil, and so when os.Exit(0) runs after it,
\* no request is between its handler's return and its "Request completed"
\* record: every request that was being served has been logged and answered
C26_LoggedBeforeGracefulExit ==
    Graceful =>
        \A r \in Conns :
            /\ conn[r].phase \in {"free", "done", "aborted"}
            /\ conn[r].phase = "done" => conn[r].logCount = 1

\* the process has exited after a drain that completed within the deadline,
\* and a request served during it is logged
C26_Witness ==
    /\ Graceful
    /\ exitCode = 0
    /\ timer = "running"
    /\ \E r \in Conns : conn[r].phase = "done" /\ conn[r].logCount = 1

\* C27: while the server is ShuttingDown a signal is only stored in the
\* channel: the step that delivers it changes no connection, no position of
\* main or of the server goroutine, not the deadline and not the exit status;
\* nothing takes it out of the channel; and the process leaves Shutdown only
\* with the drain complete or the deadline of the first signal elapsed
C27_SecondSignalHasNoEffect ==
    [][inShutdown =>
        /\ sigChan' # sigChan
            => /\ sigChan' = 1
               /\ UNCHANGED <<conn, srvPc, mainPc, inShutdown, timer, exitCode,
                              shutdownErr, mainLog>>
        /\ sigChan = 1 => (sigChan' = 1 /\ timer' # "unset" /\ (timer = "expired" => timer' = "expired"))
        /\ (shutdownErr = "" /\ shutdownErr' # "")
            => (AllIdle \/ timer = "expired")
        /\ exitCode' = 0 => shutdownErr' # ""]_vars

\* a second signal sits in the channel while Shutdown waits for a request
C27_Witness ==
    /\ inShutdown
    /\ mainPc = "polling"
    /\ sigChan = 1
    /\ timer = "running"
    /\ \E r \in Conns : conn[r].phase = "handling"

\* C28: exit status 1 comes only from a ListenAndServe error other than
\* ErrServerClosed (the bind failure); when ListenAndServe returned
\* ErrServerClosed, at whatever point the signal came, the fatal path was not
\* taken, and a process that exits without a bind failure exits with status 0
C28_Exit1OnlyOnBindFailure ==
    /\ exitCode = 1 => srvPc = "failed"
    /\ srvPc = "closed" => exitCode \in {-1, 0} /\ ~Logged("ERROR", "Server failed to start")
    /\ (exited /\ srvPc # "failed") => exitCode = 0

\* ListenAndServe has returned ErrServerClosed and the process has exited
C28_Witness ==
    /\ srvPc = "closed"
    /\ exitCode = 0
    /\ mainPc = "exited"

\* the path matches one of /api/health, /api/users, /api/users/{id},
\* /api/version
MatchesApiPattern(path) ==
    \/ path \in {PathHealth, PathUsers, PathVersion}
    \/ Len(path) = 3 /\ SubSeq(path, 1, 2) = PathUsers /\ path[3] # <<>>

\* c got what HomeHandler sends: the welcome message or the injected 503
AnsweredByHome(c) ==
    /\ Len(ClientBody(c)) = 1
    /\ \/ /\ ClientStatus(c) = StatusOK
          /\ ClientBody(c)[1] = [json |-> [message |-> <<"Welcome to the API">>]]
       \/ /\ ClientStatus(c) = StatusServiceUnavailable
          /\ ErrorMessage(c) = <<"Service temporarily unavailable">>

\* a finished GET that matches none of the four /api patterns
UnmatchedGet(c) ==
    /\ c.phase = "done"
    /\ c.next = "mux"
    /\ c.req.method = "GET"
    /\ ~MatchesApiPattern(c.req.path)

\* C29: every GET request whose path matches none of /api/health,
\* /api/users, /api/users/{id}, /api/version is answered by HomeHandler
C29_UnmatchedGetGoesHome ==
    \A r \in Conns : UnmatchedGet(conn[r]) => AnsweredByHome(conn[r])

\* C29 as amended: such a GET is answered by HomeHandler when its path is in
\* cleaned form, and by the mux with a 301 redirect when it is not; never 404
C29_UnmatchedCleanGetGoesHome ==
    \A r \in Conns :
        LET c == conn[r]
        IN UnmatchedGet(c)
           => IF cleanPath(c.req.path) = c.req.path
              THEN AnsweredByHome(c)
              ELSE ClientStatus(c) = 301

\* GET /api/users/1/posts was answered with the welcome message
C29_Witness ==
    /\ UnmatchedGet(conn[1])
    /\ conn[1].req.path = PathUser(<<"1">>) \o <<Seg("posts")>>
    /\ ClientStatus(conn[1]) = StatusOK
    /\ AnsweredByHome(conn[1])

\* the request of c went to a handler that has a simulated backend
BackendRouted(c) ==
    c.next = "mux"
    /\ Mux(c.req.method, c.req.path) \in {"GetUsersHandler", "GetUserHandler", "CreateUserHandler"}

\* C30: two runs of the same request to GET /api/users, GET /api/users/{id}
\* or POST /api/users that both fail with the same status, whatever internal
\* error each run hit, deliver the same body
C30_FailureBodyIndependentOfCause ==
    \A r1, r2 \in Runs :
        (/\ conn[r1].phase = "done"
         /\ conn[r2].phase = "done"
         /\ BackendRouted(conn[r1])
         /\ conn[r1].req = conn[r2].req
         /\ ClientStatus(conn[r1]) >= StatusBadRequest
         /\ ClientStatus(conn[r1]) = ClientStatus(conn[r2]))
        => ClientBody(conn[r1]) = ClientBody(conn[r2])

====
